---- MODULE Spec2Model ----
(***************************************************************************)
(* A model of tsh (src/src/tsh.cpp): the read-eval loop run(), the line    *)
(* parser parse_input(), the quit test isQuit() and the executor           *)
(* run_commands() with the shell's and the children's descriptor tables.   *)
(*                                                                         *)
(* Strings are sequences of one-character strings.  Descriptor tables are  *)
(* functions from descriptor numbers to open-file objects.                 *)
(***************************************************************************)
EXTENDS Integers, Sequences, FiniteSets, TLC

\* ------------------------------------------------------------------ bounds
\* longest line handed to parse_input when it is called on its own
MaxLineLen == 5
\* most pieces of a command text handed to isQuit when it is called on its own
MaxCmdPieces == 3
\* longest stage list handed to run_commands when it is called on its own
MaxStages == 3
\* most prompts shown by run() before the model stops following it
MaxPrompts == 2
\* size of a process's descriptor table (RLIMIT_NOFILE)
OpenMax == 12

\* ----------------------------------------------------------------- strings
\* the null pointer: a value that is no string (its element is no character)
NULL == <<"NULL">>
\* the content of memory that was never written
UNINIT == <<"UNINIT">>

QuitWord == <<"q", "u", "i", "t">>
LsWord == <<"l", "s">>
Delimiters == {"|", ";"}
NoDelimiters == {}

\* first index >= i of s that is past the end or holds a character outside D
RECURSIVE Strspn(_, _, _)
Strspn(s, i, D) ==
  IF i > Len(s) \/ s[i] \notin D THEN i ELSE Strspn(s, i + 1, D)

\* first index >= i of s that is past the end or holds a character of D
RECURSIVE Strcspn(_, _, _)
Strcspn(s, i, D) ==
  IF i > Len(s) \/ s[i] \in D THEN i ELSE Strcspn(s, i + 1, D)

\* strtok on string s with the saved position at i: the token (NULL when
\* there is none) and the new saved position.  The '\0' strtok writes over the
\* delimiter that ends a token is what ends the token's text here.
Strtok(s, i, D) ==
  IF i > Len(s) THEN [tok |-> NULL, save |-> i]
  ELSE LET b == Strspn(s, i, D) IN
       IF b > Len(s) THEN [tok |-> NULL, save |-> b]
       ELSE LET e == Strcspn(s, b, D) IN
            IF e > Len(s) THEN [tok |-> SubSeq(s, b, e - 1), save |-> e]
            ELSE [tok |-> SubSeq(s, b, e - 1), save |-> e + 1]

\* all sequences over S of length at most n
RECURSIVE SeqsUpTo(_, _)
SeqsUpTo(S, n) ==
  IF n = 0 THEN {<<>>}
  ELSE LET shorter == SeqsUpTo(S, n - 1) IN
       shorter \cup {Append(q, x) : q \in shorter, x \in S}

\* the concatenation of a sequence of strings
RECURSIVE Concat(_)
Concat(ps) == IF ps = <<>> THEN <<>> ELSE Head(ps) \o Concat(Tail(ps))

\* ----------------------------------------------------------------- Process
\* Process::Process: the command text is copied, the int flags become bools;
\* cmdTokens is not written by the constructor.
Process(_cmd, _pipe_in, _pipe_out) ==
  [isNull |-> FALSE, cmd |-> _cmd, pipe_in |-> (_pipe_in # 0),
   pipe_out |-> (_pipe_out # 0), cmdTokens |-> UNINIT]

\* a Process pointer that is null: isNull is the only field that may be read
NullProcess ==
  [isNull |-> TRUE, cmd |-> NULL, pipe_in |-> FALSE, pipe_out |-> FALSE,
   cmdTokens |-> UNINIT]

\* Process::split_string: the body is empty, the object is left as it is
split_string(p) == p

\* ------------------------------------------------------------- parse_input
\* what the read of *strtok(NULL, "") does when strtok returned NULL: the
\* process faults, or the read yields some byte ('|' or another one)
NullReads == {"crash", "|", "?"}

\* mutant of PipeOutVal: the test "&& next" is lost
PipeOutValNoNext(ch, next) == IF ch = "|" THEN 1 ELSE 0

\* line 156: (*strtok(NULL, "") == '|' && next) ? 1 : 0, ch the byte read
PipeOutVal(ch, next) == IF ch = "|" /\ next # NULL THEN 1 ELSE 0

\* mutant of NextPipeIn: the flag is not carried to the next stage
NextPipeInZero(pipe_out_val) == 0

\* line 166: pipe_in_val = pipe_out_val
NextPipeIn(pipe_out_val) == pipe_out_val

\* lines 153-167: the while loop, from the token in hand and strtok's saved
\* position; nr is the outcome of a read through a null pointer
RECURSIVE ParseLoop(_, _, _, _, _, _)
ParseLoop(s, token, save, pipe_in_val, list, nr) ==
  IF token = NULL THEN [crashed |-> FALSE, list |-> list]
  ELSE LET next == Strtok(s, save, Delimiters)
           rest == Strtok(s, next.save, NoDelimiters)
       IN IF rest.tok = NULL /\ nr = "crash"
          THEN [crashed |-> TRUE, list |-> list]
          ELSE LET ch == IF rest.tok = NULL THEN nr ELSE rest.tok[1]
                   pipe_out_val == PipeOutVal(ch, next.tok)
                   newProc == Process(token, pipe_in_val, pipe_out_val)
               IN ParseLoop(s, next.tok, rest.save, NextPipeIn(pipe_out_val),
                            Append(list, newProc), nr)

\* parse_input(cmd, process_list): the list after the call, or a crash
parse_input(cmd, list, nr) ==
  LET first == Strtok(cmd, 1, Delimiters)
      out == ParseLoop(cmd, first.tok, first.save, 0, list, nr)
  IN [crashed |-> out.crashed,
      list |-> [i \in 1..Len(out.list) |-> split_string(out.list[i])]]

\* ------------------------------------------------------------------ isQuit
\* strcmp(NULL, "quit"): strtok(p->cmd, "") returns NULL for an empty text
isQuitUndefined(p) == ~p.isNull /\ p.cmd # NULL /\ p.cmd = <<>>

\* mutant of isQuit: the comparison accepts any text that starts with "quit"
isQuitPrefix(p) ==
  IF p.isNull \/ p.cmd = NULL THEN FALSE
  ELSE Len(p.cmd) >= 4 /\ SubSeq(p.cmd, 1, 4) = QuitWord

\* isQuit(p), where it is defined: strtok with no delimiters returns the
\* whole text, which is compared with "quit"
isQuit(p) ==
  IF p.isNull \/ p.cmd = NULL THEN FALSE
  ELSE LET cmd == Strtok(p.cmd, 1, NoDelimiters).tok IN cmd = QuitWord

\* ------------------------------------------------------- descriptor tables
FdNone == [obj |-> 0, end |-> "none"]
StdIn == [obj |-> 0, end |-> "stdin"]
StdOut == [obj |-> 0, end |-> "stdout"]
StdErr == [obj |-> 0, end |-> "stderr"]
ReadEnd(id) == [obj |-> id, end |-> "r"]
WriteEnd(id) == [obj |-> id, end |-> "w"]
IsPipeEnd(o) == o.obj # 0

InitFds ==
  [n \in 0..(OpenMax - 1) |->
     IF n = 0 THEN StdIn ELSE IF n = 1 THEN StdOut
     ELSE IF n = 2 THEN StdErr ELSE FdNone]

IsOpen(tab, n) == n \in DOMAIN tab /\ tab[n] # FdNone

\* close(n): EBADF leaves the table as it is
Close(tab, n) == IF IsOpen(tab, n) THEN [tab EXCEPT ![n] = FdNone] ELSE tab

\* dup2(old, new): EBADF when old is not open; nothing when old = new
Dup2(tab, old, new) ==
  IF ~IsOpen(tab, old) \/ old = new THEN tab
  ELSE [tab EXCEPT ![new] = tab[old]]

FreeFds(tab) == {n \in DOMAIN tab : tab[n] = FdNone}
Lowest(S) == CHOOSE n \in S : \A m \in S : n <= m

\* pipe(fd) can succeed when two descriptors are free
PipeOk(tab) == Cardinality(FreeFds(tab)) >= 2

\* the descriptors pipe(fd) returns: fd[0] the read end, fd[1] the write end
PipeFds(tab) ==
  LET r == Lowest(FreeFds(tab))
      w == Lowest(FreeFds(tab) \ {r})
  IN [i \in 0..1 |-> IF i = 0 THEN r ELSE w]

\* the table after pipe(fd) created pipe id
PipeTab(tab, id) ==
  LET f == PipeFds(tab) IN
  [tab EXCEPT ![f[0]] = ReadEnd(id), ![f[1]] = WriteEnd(id)]

OpenPipeFds(tab) == {n \in DOMAIN tab : IsPipeEnd(tab[n])}

\* ------------------------------------------------------------------ inputs
\* the lines typed at the prompt: the empty and the blank line, one command,
\* quit alone and with an argument, and two or three commands joined by '|'
\* and ';', with quit among them and with a doubled delimiter
ShellLines ==
  {<<>>, <<" ">>, <<"a">>, QuitWord, QuitWord \o <<" ", "a">>,
   <<"a", "|", "a">>, <<"a", ";", "a">>, <<"a", "|", "a", "|", "a">>,
   <<"a", "|", "a", "|", "|", "a">>, <<"a", ";", ";", "a">>,
   <<"a", ";">> \o QuitWord, QuitWord \o <<";", "a">>,
   <<"a", " ", "|", " ">> \o QuitWord}

\* the lines parse_input is called on directly
ParseLines == SeqsUpTo({"a", " ", "|", ";"}, MaxLineLen)

CmdPieces ==
  {QuitWord, <<"Q", "u", "i", "t">>, <<"e", "x", "i", "t">>, <<" ">>,
   <<"n", "o", "w">>}
\* the arguments isQuit is called on directly (as test.cpp does)
QuitArgs ==
  {Process(Concat(ps), 0, 0) : ps \in SeqsUpTo(CmdPieces, MaxCmdPieces)}
    \cup {NullProcess, Process(NULL, 0, 0)}

\* a command with any flags, or quit (whose flags run_commands never reads)
\* after a ';' or after a '|'
DirectStages ==
  {Process(LsWord, i, o) : i \in 0..1, o \in 0..1}
    \cup {Process(QuitWord, i, 0) : i \in 0..1}
\* the stage lists run_commands is called on directly
DirectLists == SeqsUpTo(DirectStages, MaxStages)

\* the values the never-written array prev_fd[2] may hold: no descriptor,
\* the standard input or output, the first descriptor a pipe is given
GarbageFds == {-1, 0, 1, 3}
GarbagePairs == [0..1 -> GarbageFds]
\* prev_fd before its first read
Unread == [i \in 0..1 |-> -2]

\* the exit statuses of a program that was exec'ed
ProgramStatuses == {0, 1}

\* ------------------------------------------------------------------- state
VARIABLES
  entry,        \* the function the program was entered by
  pc,           \* the shell process's position
  prompts,      \* prompts shown so far by run()
  failbit,      \* std::cin has failed (end of input)
  input,        \* run(): input, the line read
  process_list, \* run(): process_list / run_commands(): command_list
  run_is_quit,  \* run(): is_quit
  ret,          \* the value isQuit returned to its caller
  is_quit,      \* run_commands(): is_quit
  idx,          \* run_commands(): position of the range-for in command_list
  prev,         \* run_commands(): prev, as a position in the list (0: nullptr)
  prev_fd,      \* run_commands(): prev_fd[2], never written
  fd,           \* run_commands(): fd[2] of the current iteration
  fds,          \* the shell's descriptor table
  nforks,       \* forks that succeeded so far
  children,     \* the forked processes that were not yet waited on
  forked,       \* history: the forks of the current run_commands call
  made,         \* history: the pipes the shell created in the current call
  wiring        \* history: stdin/stdout at execvp of the children of the
                \* previous and of the current stage

vars ==
  <<entry, pc, prompts, failbit, input, process_list, run_is_quit, ret,
    is_quit, idx, prev, prev_fd, fd, fds, nforks, children, forked, made,
    wiring>>

runVars == <<prompts, failbit, input, run_is_quit>>
callVars == <<is_quit, idx, prev, prev_fd, fd, forked, made, wiring>>
procVars == <<fds, nforks, children>>

Init ==
  /\ prompts = 0 /\ failbit = FALSE /\ run_is_quit = FALSE /\ ret = FALSE
  /\ is_quit = FALSE /\ idx = 0 /\ prev = 0 /\ prev_fd = Unread
  /\ fd = Unread /\ fds = InitFds /\ nforks = 0 /\ children = <<>>
  /\ forked = <<>> /\ made = <<>> /\ wiring = <<>>
  /\ \/ entry = "run" /\ pc = "prompt" /\ input = NULL /\ process_list = <<>>
     \/ /\ entry = "parse_input" /\ pc = "parse"
        /\ input \in ParseLines /\ process_list = <<>>
     \/ /\ entry = "isQuit" /\ pc = "isQuit" /\ input = NULL
        /\ \E p \in QuitArgs : process_list = <<p>>
     \/ /\ entry = "run_commands" /\ pc = "run_commands" /\ input = NULL
        /\ process_list \in DirectLists

\* ------------------------------------------------------------------- run()
\* lines 77-79 and read_input: the prompt is shown and a line is read; at end
\* of input getline stores an empty string and cin stays failed
ReadInput ==
  /\ pc = "prompt" /\ prompts < MaxPrompts
  /\ prompts' = prompts + 1
  /\ IF failbit
     THEN input' = <<>> /\ failbit' = failbit
     ELSE \/ \E l \in ShellLines : input' = l /\ failbit' = FALSE
          \/ input' = <<>> /\ failbit' = TRUE
  /\ pc' = "parse"
  /\ UNCHANGED <<entry, process_list, run_is_quit, ret>>
  /\ UNCHANGED callVars /\ UNCHANGED procVars

\* line 80: parse_input(input, process_list); run() does not read the line
\* again after this call
ParseInput ==
  /\ pc = "parse"
  /\ \E nr \in NullReads :
       LET out == parse_input(input, process_list, nr) IN
       IF out.crashed
       THEN pc' = "crashed" /\ process_list' = process_list
       ELSE /\ process_list' = out.list
            /\ pc' = IF entry = "parse_input" THEN "done" ELSE "run_commands"
  /\ input' = IF entry = "parse_input" THEN input ELSE NULL
  /\ UNCHANGED <<entry, ret, prompts, failbit, run_is_quit>>
  /\ UNCHANGED callVars /\ UNCHANGED procVars

\* mutant of ListAfterCleanup: the list is not cleared
ListAfterCleanupKept(list) == list

\* cleanup, lines 29-32: every Process is deleted and the list is cleared
ListAfterCleanup(list) == <<>>

\* what free(input_line) does with the never-written pointer input_line
FreeOutcomes == {"ok", "crash"}

\* lines 81-83: the result is stored, cleanup empties the list and frees the
\* never-written input_line, and the loop condition is tested.  The locals of
\* the run_commands call that returned are gone.
Cleanup ==
  /\ pc = "returned" /\ entry = "run"
  /\ run_is_quit' = is_quit
  /\ process_list' = ListAfterCleanup(process_list)
  /\ \E o \in FreeOutcomes :
       pc' = IF o = "crash" THEN "crashed"
             ELSE IF is_quit THEN "done" ELSE "prompt"
  /\ is_quit' = FALSE /\ idx' = 0 /\ prev' = 0 /\ prev_fd' = Unread
  /\ fd' = Unread /\ forked' = <<>> /\ made' = <<>> /\ wiring' = <<>>
  /\ UNCHANGED <<entry, prompts, failbit, input, ret>>
  /\ UNCHANGED procVars

\* ---------------------------------------------------------------- isQuit()
\* isQuit(p) called by a test: strcmp on a null pointer faults or returns
\* some value
CallIsQuit ==
  /\ pc = "isQuit"
  /\ LET p == process_list[1] IN
     IF isQuitUndefined(p)
     THEN \/ pc' = "crashed" /\ ret' = ret
          \/ pc' = "done" /\ ret' \in BOOLEAN
     ELSE pc' = "done" /\ ret' = isQuit(p)
  /\ UNCHANGED <<entry, process_list>>
  /\ UNCHANGED runVars /\ UNCHANGED callVars /\ UNCHANGED procVars

\* ---------------------------------------------------------- run_commands()
\* lines 248-254: the locals; prev_fd is declared and never written
RunCommandsEntry ==
  /\ pc = "run_commands"
  /\ is_quit' = FALSE /\ prev' = 0 /\ prev_fd' = Unread /\ fd' = Unread
  /\ idx' = 1
  /\ forked' = <<>> /\ made' = <<>> /\ wiring' = <<>>
  /\ pc' = "loop"
  /\ UNCHANGED <<entry, process_list, ret>>
  /\ UNCHANGED runVars /\ UNCHANGED procVars

\* mutant of AfterQuitCheck: the break is lost
AfterQuitCheckNoBreak(q) == "fork"

\* lines 257-260: a quit stage breaks out of the loop, any other is forked
AfterQuitCheck(q) == IF q THEN "returned" ELSE "fork"

\* mutant of QuitFlag: is_quit is not set
QuitFlagNotSet(q, old) == old

\* line 258: is_quit = true in the quit branch
QuitFlag(q, old) == IF q THEN TRUE ELSE old

\* lines 255-260 and 305: the loop condition, then the quit test on the stage;
\* past the last stage the function returns is_quit
LoopHead ==
  /\ pc = "loop"
  /\ IF idx > Len(process_list)
     THEN pc' = "returned" /\ is_quit' = is_quit
     ELSE LET p == process_list[idx] IN
          IF isQuitUndefined(p)
          THEN \/ pc' = "crashed" /\ is_quit' = is_quit
               \/ \E q \in BOOLEAN :
                    pc' = AfterQuitCheck(q) /\ is_quit' = QuitFlag(q, is_quit)
          ELSE /\ pc' = AfterQuitCheck(isQuit(p))
               /\ is_quit' = QuitFlag(isQuit(p), is_quit)
  /\ UNCHANGED <<entry, process_list, ret, idx, prev, prev_fd, fd, forked,
                 made, wiring>>
  /\ UNCHANGED runVars /\ UNCHANGED procVars

\* the stages whose pipe the shell has created in this call
MadeStages == {made[k].stage : k \in DOMAIN made}

\* mutant of NewChild: the child runs the first stage of the list, whatever
\* the iteration
NewChildOfFirstStage(n, p, pfd) ==
  [n |-> n, stage |-> idx, p |-> process_list[1], prev |-> prev,
   prev_fd |-> pfd, pc |-> "pipe", image |-> "shell", fds |-> fds,
   fd |-> Unread, status |-> -1]

\* the child right after fork: a copy of the shell at line 264
NewChild(n, p, pfd) ==
  [n |-> n, stage |-> idx, p |-> p, prev |-> prev, prev_fd |-> pfd,
   pc |-> "pipe", image |-> "shell", fds |-> fds, fd |-> Unread,
   status |-> -1]

\* mutant of ResourceFailure: the exit(1) is lost and the shell goes on
ResourceFailureGoesOn == "wait"

\* lines 265-267 and 270: exit(1) ends the shell when fork or pipe failed
ResourceFailure == "exited"

\* lines 264-267: fork; on failure the shell exits with status 1.  The value
\* of the never-written prev_fd is fixed here when this iteration will read it
\* (both the child and the shell read it only after the fork).
Fork ==
  /\ pc = "fork"
  /\ \/ /\ pc' = ResourceFailure
        /\ UNCHANGED <<prev_fd, nforks, children, forked>>
     \/ /\ LET p == process_list[idx] IN
           \E g \in GarbagePairs \cup {Unread} :
             /\ IF prev_fd # Unread THEN g = prev_fd
                ELSE IF prev # 0 \/ p.pipe_in THEN g # Unread
                ELSE g = Unread
             /\ prev_fd' = g
             /\ children' = Append(children, NewChild(nforks + 1, p, g))
        /\ nforks' = nforks + 1
        /\ forked' = Append(forked, [stage |-> idx, made |-> MadeStages])
        /\ pc' = "pipe"
  /\ UNCHANGED <<entry, process_list, ret, is_quit, idx, prev, fd, fds, made,
                 wiring>>
  /\ UNCHANGED runVars

\* the pipes of the n-th fork: the one the shell creates and the one the
\* child creates
ShellPipeId(n) == 2 * n - 1
ChildPipeId(n) == 2 * n

\* lines 269-270 in the shell: pipe(fd) after the fork; on failure exit(1)
ShellPipe ==
  /\ pc = "pipe"
  /\ \/ /\ pc' = ResourceFailure
        /\ UNCHANGED <<fd, fds, made>>
     \/ /\ PipeOk(fds)
        /\ fd' = PipeFds(fds)
        /\ fds' = PipeTab(fds, ShellPipeId(nforks))
        /\ made' = Append(made, [stage |-> idx, id |-> ShellPipeId(nforks),
                                 fd |-> PipeFds(fds)])
        /\ pc' = "parent"
  /\ UNCHANGED <<entry, process_list, ret, is_quit, idx, prev, prev_fd,
                 nforks, children, forked, wiring>>
  /\ UNCHANGED runVars

\* lines 294-297: the shell closes prev_fd[0] and prev_fd[1] when there was a
\* previous stage
ParentClose ==
  /\ pc = "parent"
  /\ fds' = IF prev # 0 THEN Close(Close(fds, prev_fd[0]), prev_fd[1])
            ELSE fds
  /\ pc' = "wait"
  /\ UNCHANGED <<entry, process_list, ret, nforks, children>>
  /\ UNCHANGED runVars /\ UNCHANGED callVars

\* the sequence cs without its k-th element
Remove(cs, k) ==
  [i \in 1..(Len(cs) - 1) |-> IF i < k THEN cs[i] ELSE cs[i + 1]]

\* mutant of Reap: the wait is lost, the child stays
ReapNone(cs, k) == cs

\* wait(): the terminated child k leaves the process table
Reap(cs, k) == Remove(cs, k)

\* mutant of Terminated: wait returns for a child that still runs
TerminatedOrNot(c) == TRUE

\* wait() at line 300 returns for a child that has terminated
Terminated(c) == c.pc = "exited"

\* lines 300-303: wait for a child to terminate (with no child at all wait
\* fails at once), then prev = p and the loop goes on
Wait ==
  /\ pc = "wait"
  /\ IF children = <<>> THEN children' = children
     ELSE \E k \in DOMAIN children :
            /\ Terminated(children[k])
            /\ children' = Reap(children, k)
  /\ prev' = idx
  /\ idx' = idx + 1
  /\ wiring' = SelectSeq(wiring, LAMBDA w : w.stage = idx)
  /\ pc' = "loop"
  /\ UNCHANGED <<entry, process_list, ret, is_quit, prev_fd, fd, fds, nforks,
                 forked, made>>
  /\ UNCHANGED runVars

\* ---------------------------------------------------------------- children
shellVars ==
  <<entry, pc, process_list, ret, is_quit, idx, prev, prev_fd, fd, fds,
    nforks, forked, made>>

\* lines 269-270 in the child: its own pipe(fd); on failure exit(1)
ChildPipe(k) ==
  /\ children[k].pc = "pipe"
  /\ LET c == children[k] IN
     \/ children' = [children EXCEPT ![k].pc = "exited", ![k].status = 1]
     \/ /\ PipeOk(c.fds)
        /\ children' = [children EXCEPT
                          ![k].fd = PipeFds(c.fds),
                          ![k].fds = PipeTab(c.fds, ChildPipeId(c.n)),
                          ![k].pc = "setup"]
  /\ wiring' = wiring
  /\ UNCHANGED shellVars /\ UNCHANGED runVars

\* lines 275-285: the child's descriptor table when it reaches execvp
ChildWire(c) ==
  LET t1 == IF c.p.pipe_in THEN Dup2(c.fds, c.prev_fd[1], 0) ELSE c.fds
      t2 == IF c.prev # 0 THEN Close(Close(t1, c.prev_fd[0]), c.prev_fd[1])
            ELSE t1
      t3 == IF c.p.pipe_out THEN Dup2(t2, c.fd[1], 1) ELSE t2
  IN Close(Close(t3, c.fd[0]), c.fd[1])

ChildSetup(k) ==
  /\ children[k].pc = "setup"
  /\ LET t == ChildWire(children[k]) IN
     /\ children' = [children EXCEPT ![k].fds = t, ![k].pc = "exec"]
     /\ wiring' = Append(wiring, [stage |-> children[k].stage,
                                  in |-> t[0], out |-> t[1]])
  /\ UNCHANGED shellVars /\ UNCHANGED runVars

\* mutant of ExecFailed: the exit(1) after execvp is lost and the child goes
\* on to line 303 of the loop
ExecFailedGoesOn(c) == [c EXCEPT !.pc = "loop"]

\* line 290: execvp returned, the child exits with status 1
ExecFailed(c) == [c EXCEPT !.pc = "exited", !.status = 1]

\* line 288: execvp succeeded, the image is the program's
ExecDone(c) == [c EXCEPT !.pc = "program", !.image = "program"]

\* lines 288-290: execvp(p->cmdTokens[0], p->cmdTokens)
ChildExec(k) ==
  /\ children[k].pc = "exec"
  /\ \/ children' = [children EXCEPT ![k] = ExecDone(children[k])]
     \/ children' = [children EXCEPT ![k] = ExecFailed(children[k])]
  /\ wiring' = wiring
  /\ UNCHANGED shellVars /\ UNCHANGED runVars

\* the exec'ed program terminates
ChildExit(k) ==
  /\ children[k].pc = "program"
  /\ \E st \in ProgramStatuses :
       children' = [children EXCEPT ![k].pc = "exited", ![k].status = st]
  /\ wiring' = wiring
  /\ UNCHANGED shellVars /\ UNCHANGED runVars

\* the shell process exists: exit(1), a fault or the return of run() ends
\* it and closes its descriptors
ShellAlive == pc \notin {"exited", "crashed", "done"}

\* some process holds end e of pipe id open
EndHeld(id, e) ==
  \/ ShellAlive /\ \E n \in DOMAIN fds : fds[n] = [obj |-> id, end |-> e]
  \/ \E k \in DOMAIN children :
       /\ children[k].pc # "exited"
       /\ \E n \in DOMAIN children[k].fds :
            children[k].fds[n] = [obj |-> id, end |-> e]

\* a read of standard input by child c sees end of file (or fails): always,
\* unless it is the read end of a pipe whose write end some process holds
InputAtEof(c) == c.fds[0].end = "r" => ~EndHeld(c.fds[0].obj, "w")

\* the exec'ed program starts to read its standard input up to end of file
ProgramReads(k) ==
  /\ children[k].pc = "program"
  /\ children' = [children EXCEPT ![k].pc = "reading"]
  /\ wiring' = wiring
  /\ UNCHANGED shellVars /\ UNCHANGED runVars

\* the program's read returns end of file and the program terminates
ProgramEof(k) ==
  /\ children[k].pc = "reading"
  /\ InputAtEof(children[k])
  /\ \E st \in ProgramStatuses :
       children' = [children EXCEPT ![k].pc = "exited", ![k].status = st]
  /\ wiring' = wiring
  /\ UNCHANGED shellVars /\ UNCHANGED runVars

ChildStep ==
  \E k \in DOMAIN children :
    \/ ChildPipe(k) \/ ChildSetup(k) \/ ChildExec(k) \/ ChildExit(k)
    \/ ProgramReads(k) \/ ProgramEof(k)

Next ==
  \/ ReadInput
  \/ ParseInput
  \/ Cleanup
  \/ CallIsQuit
  \/ RunCommandsEntry
  \/ LoopHead
  \/ Fork
  \/ ShellPipe
  \/ ParentClose
  \/ Wait
  \/ ChildStep

Spec == Init /\ [][Next]_vars

\* ------------------------------------------------------------ observations
\* run_commands has returned to its caller and the caller has not gone on
Returned == pc = "returned"

\* parse_input has returned (to a test, or to run() at line 80)
Parsed ==
  \/ entry = "parse_input" /\ pc = "done"
  \/ entry = "run" /\ pc = "run_commands"

\* parse_input has returned to a test, which still holds the line
ParsedByTest == entry = "parse_input" /\ pc = "done"

\* the stages of the list that the code's isQuit accepts
QuitStages == {j \in DOMAIN process_list : isQuit(process_list[j])}

\* the stages forked in the current call of run_commands
ForkedStages == {forked[k].stage : k \in DOMAIN forked}

\* C1: in run_commands no child is forked for a stage that is a termination
\* request (a stage isQuit accepts) nor for any stage after one, whatever
\* stages precede or follow it.
C1_NoForkFromQuitOn ==
  LET quits == QuitStages IN
  \A i \in ForkedStages : \A j \in quits : i < j

\* C1 witness: a call returned after forking the first stage, stopping at a
\* quit stage in second place with a stage after it that was not forked
C1_Witness ==
  /\ Returned /\ Len(process_list) = 3
  /\ QuitStages = {2}
  /\ ForkedStages = {1}

\* C2: run_commands returns true if and only if a stage of the list is a
\* termination request (isQuit accepts it); with none, and for the empty
\* list, it returns false.
C2_ReturnsQuitSeen ==
  Returned => (is_quit <=> QuitStages # {})

\* C2 witness: a call that forked a stage and then returned true
C2_Witness ==
  Returned /\ is_quit /\ ForkedStages # {} /\ QuitStages # {}

\* the wiring recorded for stage i of the current call
WiringOf(i) == {wiring[k] : k \in {m \in DOMAIN wiring : wiring[m].stage = i}}

\* C3: for adjacent stages i, i+1 with writesToNext(i) and
\* readsFromPrevious(i+1), the child of stage i has its standard output on
\* the write end and the child of stage i+1 its standard input on the read
\* end of one and the same pipe.
C3_AdjacentStagesShareAPipe ==
  \A i \in DOMAIN process_list :
    (/\ i + 1 \in DOMAIN process_list
     /\ process_list[i].pipe_out /\ process_list[i + 1].pipe_in)
    => \A a \in WiringOf(i) : \A b \in WiringOf(i + 1) :
         /\ a.out.end = "w" /\ b.in.end = "r"
         /\ a.out.obj = b.in.obj

\* C4: stages are forked in list order, and at the fork of a stage the shell
\* has already created the pipe of each adjacency the stage needs: the
\* one to the next stage when it writes to it, the one from the previous
\* stage when it reads from it.
C4_PipeExistsBeforeFork ==
  \A k \in DOMAIN forked :
    LET i == forked[k].stage IN
    /\ \A m \in DOMAIN forked : m < k => forked[m].stage < i
    /\ i \in DOMAIN process_list =>
         /\ process_list[i].pipe_out => i \in forked[k].made
         /\ (process_list[i].pipe_in /\ i > 1) => (i - 1) \in forked[k].made

\* C5: after run_commands returns, no descriptor of a pipe created by the
\* shell during that call is still open in the shell.
C5_NoPipeFdLeftOpen ==
  Returned =>
    \A k \in DOMAIN made : \A n \in DOMAIN fds : fds[n].obj # made[k].id

\* C6: when run_commands has returned, and at every later prompt, every
\* child the shell forked has been waited on.
C6_AllChildrenReaped ==
  pc \in {"returned", "prompt", "parse", "run_commands", "done"}
    => children = <<>>

\* C6 witness: a call that forked two children has returned
C6_Witness == Returned /\ Cardinality(ForkedStages) >= 2 /\ children = <<>>

\* C7: a child in which execvp failed has exited with status 1: a child
\* that still runs the shell's image is only ever between fork and execvp or
\* terminated with status 1; it is nowhere else in the shell's code.
C7_ExecFailureExitsWithOne ==
  \A k \in DOMAIN children :
    children[k].image = "shell" =>
      \/ children[k].pc \in {"pipe", "setup", "exec"}
      \/ children[k].pc = "exited" /\ children[k].status = 1

\* C7 witness: a child reached execvp (its pipe was created), execvp failed
\* and the child is terminated with status 1
C7_Witness ==
  \E k \in DOMAIN children :
    /\ children[k].image = "shell" /\ children[k].pc = "exited"
    /\ children[k].fd # Unread /\ children[k].status = 1

\* the first blank-delimited token of a text (NULL when there is none)
FirstToken(text) == Strtok(text, 1, {" "}).tok

\* C8: isQuit(s) is true if and only if the first whitespace-delimited token
\* of the stage's command equals "quit" ("quit" and "quit now" true, "Quit"
\* and "exit" false); stated for stages with a non-empty command text.
C8_QuitIffFirstTokenIsQuit ==
  (/\ entry = "isQuit" /\ pc = "done"
   /\ ~process_list[1].isNull
   /\ process_list[1].cmd # NULL /\ process_list[1].cmd # <<>>)
  => (ret <=> FirstToken(process_list[1].cmd) = QuitWord)

\* the stages of a line scanned left to right: each command text with the
\* delimiter that immediately follows it
RECURSIVE Scan(_, _)
Scan(s, i) ==
  LET b == Strspn(s, i, Delimiters) IN
  IF b > Len(s) THEN <<>>
  ELSE LET e == Strcspn(s, b, Delimiters) IN
       <<[text |-> SubSeq(s, b, e - 1), pipe |-> (e <= Len(s) /\ s[e] = "|")]>>
         \o Scan(s, e + 1)

\* a line of command texts, each holding a character that is no blank, with
\* exactly one delimiter between two of them and none before or after
PlainLine(s) ==
  /\ s # <<>> /\ s[1] \notin Delimiters /\ s[Len(s)] \notin Delimiters
  /\ \A i \in 1..(Len(s) - 1) :
       ~(s[i] \in Delimiters /\ s[i + 1] \in Delimiters)
  /\ \A k \in DOMAIN Scan(s, 1) : FirstToken(Scan(s, 1)[k].text) # NULL

\* C9: parse_input gives each stage the pipe-out flag of the delimiter that
\* immediately follows its command text (true for '|', false for ';' or
\* none) and the pipe-in flag of the previous stage's pipe-out: "a | b | c"
\* gives three stages (false,true), (true,true), (true,false) and "a ; b" two
\* stages with all flags false.  Stated for lines of the form
\* text (delimiter text)*, on which parse_input is to complete.
C9_FlagsFollowDelimiters ==
  /\ (entry = "parse_input" /\ PlainLine(input)) => pc # "crashed"
  /\ (ParsedByTest /\ PlainLine(input)) =>
       LET sc == Scan(input, 1) IN
       /\ Len(process_list) = Len(sc)
       /\ \A i \in DOMAIN sc :
            /\ process_list[i].pipe_out = sc[i].pipe
            /\ process_list[i].pipe_in = (i > 1 /\ sc[i - 1].pipe)

\* C10: in every pipeline parse_input produces the first stage has pipe-in
\* false, every later stage's pipe-in equals the previous stage's pipe-out,
\* and the last stage has pipe-out false.
C10_PipeFlagsConsistent ==
  (Parsed /\ process_list # <<>>) =>
    /\ ~process_list[1].pipe_in
    /\ \A i \in 2..Len(process_list) :
         process_list[i].pipe_in = process_list[i - 1].pipe_out
    /\ ~process_list[Len(process_list)].pipe_out

\* C10 witness: parse_input produced two stages joined by a pipe
C10_Witness ==
  /\ Parsed /\ Len(process_list) = 2
  /\ process_list[1].pipe_out /\ process_list[2].pipe_in

\* a line with no '|' and no ';'
NoDelimiter(s) == \A i \in DOMAIN s : s[i] \notin Delimiters

\* a text with a character that is no blank
HasText(s) == FirstToken(s) # NULL

\* C11: for every input line that holds non-whitespace text and no '|' or
\* ';', parse_input completes and yields exactly one stage, with
\* readsFromPrevious false and writesToNext false.
C11_SingleCommandLine ==
  (entry = "parse_input" /\ NoDelimiter(input) /\ HasText(input)) =>
    /\ pc # "crashed"
    /\ pc = "done" =>
         /\ Len(process_list) = 1
         /\ ~process_list[1].pipe_in /\ ~process_list[1].pipe_out

\* a text that is empty or all blanks
Blank(s) == \A i \in DOMAIN s : s[i] = " "

\* C12: for an input line that is empty or all whitespace parse_input
\* completes with an empty pipeline, and run_commands on an empty pipeline
\* returns false without forking a process.
C12_BlankLineGivesEmptyPipeline ==
  /\ (entry = "parse_input" /\ Blank(input)) =>
       /\ pc # "crashed"
       /\ pc = "done" => process_list = <<>>
  /\ (Returned /\ process_list = <<>>) => (~is_quit /\ forked = <<>>)

\* the blank-separated tokens of a text from position i on, in order
RECURSIVE Tokens(_, _)
Tokens(s, i) ==
  LET r == Strtok(s, i, {" "}) IN
  IF r.tok = NULL THEN <<>> ELSE <<r.tok>> \o Tokens(s, r.save)

\* the argument vector of a command text: its tokens, then a null entry
Argv(text) == Tokens(text, 1) \o <<NULL>>

\* cmdTokens of stage p holds the argument vector of its command text
HasArgv(p) == p.cmdTokens # UNINIT /\ p.cmdTokens = Argv(p.cmd)

\* C13: after parse_input (which calls split_string on every stage) each
\* stage's cmdTokens holds the whitespace-separated tokens of its command
\* text in order, followed by a null entry, and every child run_commands
\* forks hands such a vector to execvp.
C13_ArgvIsTokensThenNull ==
  /\ Parsed => \A i \in DOMAIN process_list : HasArgv(process_list[i])
  /\ \A k \in DOMAIN children :
       children[k].pc \in {"exec", "program"} => HasArgv(children[k].p)

\* a line with a command text of no token next to one that has a token
HasEmptyCommand(s) ==
  /\ \E k \in DOMAIN Scan(s, 1) : ~HasText(Scan(s, 1)[k].text)
  /\ \E k \in DOMAIN Scan(s, 1) : HasText(Scan(s, 1)[k].text)

\* C14: a command text that yields no token is dropped: parse_input
\* completes on a line that holds one, no stage of the pipeline has such a
\* text, and no child is forked for one.
C14_EmptyCommandDropped ==
  /\ (entry = "parse_input" /\ HasEmptyCommand(input)) => pc # "crashed"
  /\ (ParsedByTest /\ HasEmptyCommand(input)) =>
       \A i \in DOMAIN process_list : HasText(process_list[i].cmd)
  /\ \A k \in DOMAIN children : HasText(children[k].p.cmd)

\* C15: isQuit returns false, without crashing, for a null stage pointer,
\* for a stage whose command pointer is null and for a stage whose command
\* text is empty.
C15_QuitFalseOnNullOrEmpty ==
  (/\ entry = "isQuit"
   /\ \/ process_list[1].isNull
      \/ process_list[1].cmd = NULL
      \/ process_list[1].cmd = <<>>)
  => /\ pc # "crashed"
     /\ pc = "done" => ~ret

\* C16: once the line source has reached end of input the loop of run shows
\* no further prompt and reads no further line.
C16_NoPromptAfterEndOfInput ==
  [][failbit => prompts' = prompts]_vars

C18_PipelineFreshPerLine ==
  /\ []((entry = "run" /\ pc \in {"prompt", "parse"}) => process_list = <<>>)
  /\ []((entry = "run" /\ run_is_quit) => pc \in {"done", "crashed"})
  /\ [][/\ (entry = "run" /\ pc = "parse" /\ pc' = "run_commands") =>
            \E nr \in NullReads :
              process_list' = parse_input(input, <<>>, nr).list
        /\ (entry = "run" /\ pc = "returned" /\ is_quit) =>
            (pc' \in {"done", "crashed"} /\ prompts' = prompts)
        /\ pc = "done" => prompts' = prompts]_vars

\* C18 witness: the second line was parsed after the first line's stage was
\* forked and run
C18_Witness ==
  /\ entry = "run" /\ pc = "run_commands" /\ prompts = 2
  /\ nforks >= 1 /\ process_list # <<>>

\* C19: the shell waits for the child it has just forked before it forks
\* the next stage: at every moment at most one forked child is unreaped, it
\* is the child of the current iteration, a fork happens only with no child
\* unreaped, and each wait returns for that child, terminated, and reaps it.
C19_OneChildAtATime ==
  /\ [](/\ Len(children) <= 1
        /\ \A k \in DOMAIN children :
             children[k].n = nforks /\ children[k].stage = idx)
  /\ [][/\ nforks' # nforks => children = <<>>
        /\ (pc = "wait" /\ pc' # "wait") =>
             /\ Len(children) = 1 /\ children[1].n = nforks
             /\ children[1].pc = "exited" /\ children' = <<>>]_vars

\* C19 witness: the child of the second stage has terminated and the shell
\* is at its wait
C19_Witness ==
  /\ pc = "wait" /\ idx = 2 /\ nforks = 2
  /\ Len(children) = 1 /\ children[1].pc = "exited"

\* descriptor n is, in table tab, an open end of a pipe of the list mk
OpenEndOfMadePipe(tab, mk, n) ==
  /\ IsOpen(tab, n)
  /\ \E m \in DOMAIN mk : tab[n].obj = mk[m].id /\ n \in {mk[m].fd[0], mk[m].fd[1]}

\* C20: every close the shell issues in run_commands is of a descriptor
\* that a pipe creation of this call returned and that is still open: never
\* an uninitialised, a never-opened or an already closed one.
C20_ClosesOnlyOwnOpenPipeFds ==
  (pc = "parent" /\ prev # 0) =>
    /\ OpenEndOfMadePipe(fds, made, prev_fd[0])
    /\ OpenEndOfMadePipe(fds, made, prev_fd[1])
    /\ prev_fd[0] # prev_fd[1]

\* a pipe-connected chain: the first stage reads from no stage, and a stage
\* reads from the previous one exactly when that one writes to it
PipeChain(list) ==
  /\ list # <<>> /\ ~list[1].pipe_in
  /\ \A i \in 2..Len(list) : list[i].pipe_in = list[i - 1].pipe_out
  /\ \E i \in DOMAIN list : list[i].pipe_out

\* C21: no child is left blocked for ever on a pipe: the shell is never
\* waiting for a child that is reading from a pipe whose write end is held
\* open, by the waiting shell or by the reading child itself, so that the
\* read can never see end of file and run_commands can never return.
\* Stated for the calls of run_commands on a pipe-connected chain.
C21_NoChildBlockedOnPipe ==
  ~(/\ PipeChain(process_list)
    /\ pc = "wait" /\ children # <<>>
    /\ \A k \in DOMAIN children :
         children[k].pc = "reading" /\ ~InputAtEof(children[k]))

\* C22: a child whose stage does not write to the next stage keeps the
\* shell's original standard output and a child whose stage does not read
\* from the previous stage keeps the shell's original standard input, when
\* it reaches execvp.
C22_UnsetFlagsKeepShellStreams ==
  \A k \in DOMAIN wiring :
    wiring[k].stage \in DOMAIN process_list =>
      /\ ~process_list[wiring[k].stage].pipe_out => wiring[k].out = StdOut
      /\ ~process_list[wiring[k].stage].pipe_in => wiring[k].in = StdIn

\* the first stage of the list, from stage j on, that isQuit accepts, or one
\* past the last
RECURSIVE FirstQuitFrom(_, _)
FirstQuitFrom(list, j) ==
  IF j > Len(list) THEN j
  ELSE IF isQuit(list[j]) THEN j ELSE FirstQuitFrom(list, j + 1)

FirstQuit(list) == FirstQuitFrom(list, 1)

\* C23: run_commands forks the stages in list order, each once and none
\* skipped; when it returns it has forked exactly the stages before the
\* first termination request (all of them when there is none); each child
\* is forked for the stage of the current iteration and holds that stage,
\* and a child that has terminated after creating its pipe went through
\* execvp.
C23_OneChildPerStageInOrder ==
  LET first == FirstQuit(process_list) IN
  /\ \A k \in DOMAIN forked : forked[k].stage = k /\ k < first
  /\ Returned => Len(forked) = first - 1
  /\ \A k \in DOMAIN children :
       /\ children[k].stage = Len(forked)
       /\ children[k].p = process_list[children[k].stage]
       /\ (children[k].pc = "exited" /\ children[k].fd # Unread) =>
            \/ children[k].image = "program"
            \/ children[k].image = "shell" /\ children[k].status = 1

\* C23 witness: a call on three stages with a quit in third place has
\* returned after forking the first two
C23_Witness ==
  /\ Returned /\ Len(process_list) = 3 /\ FirstQuit(process_list) = 3
  /\ Len(forked) = 2

====
